---- MODULE Spec2Model ----
(***************************************************************************)
(* Model of the payments engine: Account (src/src/account.rs), the         *)
(* transaction records (src/src/transaction.rs), PaymentsEngine            *)
(* (src/src/engine.rs) and the run loop of main (src/src/main.rs).         *)
(*                                                                         *)
(* Money is rust_decimal::Decimal: a 96-bit mantissa and a scale of 0..28  *)
(* decimal digits.  A Decimal is modelled by its value, an integer count   *)
(* of the smallest unit 10^-MaxScale; the mantissa limit and the number of *)
(* scales are scaled down.  checked_add / checked_sub are modelled by what *)
(* the crate does: the exact result is kept when some scale holds it in    *)
(* the mantissa, else it is rounded (half to even) to the largest scale    *)
(* whose mantissa holds it, and only a result too large for scale 0 is     *)
(* None.                                                                   *)
(***************************************************************************)
EXTENDS Integers, Sequences, FiniteSets, TLC

\* ------------------------------------------------------------- bounds
\* Scales a Decimal has beyond 0 (28 in the crate).
MaxScale == 1
\* Largest mantissa of a Decimal (2^96 - 1 in the crate).
MaxMantissa == 19
\* Rows the input holds at most.
MaxInput == 5

\* The client ids (u16) and tx ids (u32) the rows draw from.
AccountIds == {1, 2}
TxIds == {1, 2}

RECURSIVE Pow10(_)
Pow10(k) == IF k = 0 THEN 1 ELSE 10 * Pow10(k - 1)

\* One whole unit of money, in smallest units.
One == Pow10(MaxScale)
\* Decimal::MAX: the largest mantissa at scale 0.
DecimalMAX == MaxMantissa * One

\* Amounts a transaction row may carry (smallest units): a negative one, a
\* fraction of one unit, and Decimal::MAX.
Amounts == {-5, 3, DecimalMAX}

\* ------------------------------------------------------------ Decimal
Abs(x) == IF x < 0 THEN 0 - x ELSE x

\* z / d rounded half to even, z >= 0.
RoundHalfEven(z, d) ==
    LET q == z \div d
        r == z % d
    IN IF 2 * r > d \/ (2 * r = d /\ q % 2 = 1) THEN q + 1 ELSE q

\* The scales (0 = whole units) at which the magnitude z, rounded, fits the mantissa.
FittingScales(z) ==
    {s \in 0..MaxScale : RoundHalfEven(z, Pow10(MaxScale - s)) <= MaxMantissa}

SetMax(S) == CHOOSE x \in S : \A y \in S : y <= x

\* The Decimal nearest the exact value z, or None when |z| exceeds Decimal::MAX.
Rescale(z) ==
    LET fit == FittingScales(Abs(z))
    IN IF fit = {} THEN [some |-> FALSE, val |-> 0]
       ELSE LET d == Pow10(MaxScale - SetMax(fit))
                m == RoundHalfEven(Abs(z), d)
            IN [some |-> TRUE, val |-> (IF z < 0 THEN 0 - (m * d) ELSE m * d)]

checked_add(x, y) == Rescale(x + y)

checked_sub(x, y) == Rescale(x - y)

is_sign_negative(x) == x < 0

\* A value a Decimal can hold exactly.
IsDecimal(x) ==
    \E s \in 0..MaxScale :
        /\ Abs(x) % Pow10(MaxScale - s) = 0
        /\ Abs(x) \div Pow10(MaxScale - s) <= MaxMantissa

\* -------------------------------------------------------------- errors
\* Error::AccountError(msg) and Error::TransactionError(msg): the variant and
\* its message; Display prints "<kind>: <msg>".
AccountError(msg) == [kind |-> "AccountError", msg |-> msg]
TransactionError(msg) == [kind |-> "TransactionError", msg |-> msg]

Ok == [kind |-> "Ok", msg |-> ""]
ErrLocked == AccountError("Account is locked")
ErrInsufficient == AccountError("Insufficient funds")
ErrNegative == TransactionError("amounts must be greater than zero")
ErrOverflow == TransactionError("Overflow Error")
ErrUnderflow == TransactionError("Underflow Error")
ErrOwnerMismatch == TransactionError("account ID does not match")
ErrInvalidAmount == TransactionError("Invalid transaction amount")

Results == {Ok, ErrLocked, ErrInsufficient, ErrNegative, ErrOverflow,
            ErrUnderflow, ErrOwnerMismatch, ErrInvalidAmount}

\* ------------------------------------------------------------- Account
Account_new(id) ==
    [id |-> id, available |-> 0, held |-> 0, total |-> 0, locked |-> FALSE]


\* check_lock without the check: a locked account is let through.
check_lock_never(acct) == Ok

check_lock(acct) == IF acct.locked THEN ErrLocked ELSE Ok

\* check_negative_amount reporting the negative amount as an AccountError.
check_negative_amount_as_account(amount) ==
    IF is_sign_negative(amount)
    THEN AccountError("amounts must be greater than zero")
    ELSE Ok

check_negative_amount(amount) == IF is_sign_negative(amount) THEN ErrNegative ELSE Ok

validate_deposit_amount(acct, amount) == check_negative_amount(amount)

validate_withdrawal_amount(acct, amount) ==
    IF check_negative_amount(amount) # Ok THEN check_negative_amount(amount)
    ELSE IF acct.available < amount \/ acct.total < amount THEN ErrInsufficient
    ELSE Ok

validate_dispute_amount(acct, amount) ==
    IF acct.available < amount THEN ErrInsufficient ELSE Ok

validate_resolve_amount(acct, amount) ==
    IF acct.held < amount THEN ErrInsufficient ELSE Ok

validate_chargeback_amount(acct, amount) ==
    IF acct.held < amount \/ acct.total < amount THEN ErrInsufficient ELSE Ok


\* validate_tx_account_id without the comparison.
validate_tx_account_id_any(acct, tx_account_id) == Ok

validate_tx_account_id(acct, tx_account_id) ==
    IF acct.id # tx_account_id THEN ErrOwnerMismatch ELSE Ok

\* Each operation returns [res, acct]: the result and the account after the call.

\* deposit that stores available before total is computed: an overflow of
\* total leaves the new available behind.
Account_deposit_partial(acct, amount) ==
    LET new_available == checked_add(acct.available, amount)
        new_total == checked_add(acct.total, amount)
    IN IF check_lock(acct) # Ok THEN [res |-> check_lock(acct), acct |-> acct]
       ELSE IF validate_deposit_amount(acct, amount) # Ok
            THEN [res |-> validate_deposit_amount(acct, amount), acct |-> acct]
       ELSE IF ~new_available.some THEN [res |-> ErrOverflow, acct |-> acct]
       ELSE IF ~new_total.some
            THEN [res |-> ErrOverflow,
                  acct |-> [acct EXCEPT !.available = new_available.val]]
       ELSE [res |-> Ok,
             acct |-> [acct EXCEPT !.available = new_available.val,
                                   !.total = new_total.val]]

Account_deposit(acct, amount) ==
    LET new_available == checked_add(acct.available, amount)
        new_total == checked_add(acct.total, amount)
    IN IF check_lock(acct) # Ok THEN [res |-> check_lock(acct), acct |-> acct]
       ELSE IF validate_deposit_amount(acct, amount) # Ok
            THEN [res |-> validate_deposit_amount(acct, amount), acct |-> acct]
       ELSE IF ~new_available.some THEN [res |-> ErrOverflow, acct |-> acct]
       ELSE IF ~new_total.some THEN [res |-> ErrOverflow, acct |-> acct]
       ELSE [res |-> Ok,
             acct |-> [acct EXCEPT !.available = new_available.val,
                                   !.total = new_total.val]]

Account_withdrawal(acct, amount) ==
    LET new_available == checked_sub(acct.available, amount)
        new_total == checked_sub(acct.total, amount)
    IN IF check_lock(acct) # Ok THEN [res |-> check_lock(acct), acct |-> acct]
       ELSE IF validate_withdrawal_amount(acct, amount) # Ok
            THEN [res |-> validate_withdrawal_amount(acct, amount), acct |-> acct]
       ELSE IF ~new_available.some THEN [res |-> ErrUnderflow, acct |-> acct]
       ELSE IF ~new_total.some THEN [res |-> ErrUnderflow, acct |-> acct]
       ELSE [res |-> Ok,
             acct |-> [acct EXCEPT !.available = new_available.val,
                                   !.total = new_total.val]]

Account_dispute(acct, amount) ==
    LET new_available == checked_sub(acct.available, amount)
        new_held == checked_add(acct.held, amount)
    IN IF check_lock(acct) # Ok THEN [res |-> check_lock(acct), acct |-> acct]
       ELSE IF validate_dispute_amount(acct, amount) # Ok
            THEN [res |-> validate_dispute_amount(acct, amount), acct |-> acct]
       ELSE IF ~new_available.some THEN [res |-> ErrUnderflow, acct |-> acct]
       ELSE IF ~new_held.some THEN [res |-> ErrOverflow, acct |-> acct]
       ELSE [res |-> Ok,
             acct |-> [acct EXCEPT !.available = new_available.val,
                                   !.held = new_held.val]]

\* resolve with chargeback's lock line copied in.
Account_resolve_locks(acct, amount) ==
    LET new_held == checked_sub(acct.held, amount)
        new_available == checked_add(acct.available, amount)
    IN IF check_lock(acct) # Ok THEN [res |-> check_lock(acct), acct |-> acct]
       ELSE IF validate_resolve_amount(acct, amount) # Ok
            THEN [res |-> validate_resolve_amount(acct, amount), acct |-> acct]
       ELSE IF ~new_held.some THEN [res |-> ErrUnderflow, acct |-> acct]
       ELSE IF ~new_available.some THEN [res |-> ErrOverflow, acct |-> acct]
       ELSE [res |-> Ok,
             acct |-> [acct EXCEPT !.held = new_held.val,
                                   !.available = new_available.val,
                                   !.locked = TRUE]]

Account_resolve(acct, amount) ==
    LET new_held == checked_sub(acct.held, amount)
        new_available == checked_add(acct.available, amount)
    IN IF check_lock(acct) # Ok THEN [res |-> check_lock(acct), acct |-> acct]
       ELSE IF validate_resolve_amount(acct, amount) # Ok
            THEN [res |-> validate_resolve_amount(acct, amount), acct |-> acct]
       ELSE IF ~new_held.some THEN [res |-> ErrUnderflow, acct |-> acct]
       ELSE IF ~new_available.some THEN [res |-> ErrOverflow, acct |-> acct]
       ELSE [res |-> Ok,
             acct |-> [acct EXCEPT !.held = new_held.val,
                                   !.available = new_available.val]]

\* Account::chargeback with the funds validated before the lock is checked.
Account_chargeback_validates_first(acct, amount) ==
    LET new_held == checked_sub(acct.held, amount)
        new_total == checked_sub(acct.total, amount)
    IN IF validate_chargeback_amount(acct, amount) # Ok
       THEN [res |-> validate_chargeback_amount(acct, amount), acct |-> acct]
       ELSE IF check_lock(acct) # Ok THEN [res |-> check_lock(acct), acct |-> acct]
       ELSE IF ~new_held.some THEN [res |-> ErrUnderflow, acct |-> acct]
       ELSE IF ~new_total.some THEN [res |-> ErrUnderflow, acct |-> acct]
       ELSE [res |-> Ok,
             acct |-> [acct EXCEPT !.held = new_held.val,
                                   !.total = new_total.val,
                                   !.locked = TRUE]]

Account_chargeback(acct, amount) ==
    LET new_held == checked_sub(acct.held, amount)
        new_total == checked_sub(acct.total, amount)
    IN IF check_lock(acct) # Ok THEN [res |-> check_lock(acct), acct |-> acct]
       ELSE IF validate_chargeback_amount(acct, amount) # Ok
            THEN [res |-> validate_chargeback_amount(acct, amount), acct |-> acct]
       ELSE IF ~new_held.some THEN [res |-> ErrUnderflow, acct |-> acct]
       ELSE IF ~new_total.some THEN [res |-> ErrUnderflow, acct |-> acct]
       ELSE [res |-> Ok,
             acct |-> [acct EXCEPT !.held = new_held.val,
                                   !.total = new_total.val,
                                   !.locked = TRUE]]

\* --------------------------------------------------------- Transaction
Deposit == "deposit"
Withdrawal == "withdrawal"
Dispute == "dispute"
Resolve == "resolve"
Chargeback == "chargeback"

TransactionType == {Chargeback, Deposit, Dispute, Resolve, Withdrawal}

\* Option<Decimal>
SomeAmount(a) == [some |-> TRUE, val |-> a]
NoneAmount == [some |-> FALSE, val |-> 0]

Transaction(type, account_id, tx_id, amount) ==
    [tx_type |-> type, account_id |-> account_id, tx_id |-> tx_id, amount |-> amount]

\* TxRecord::try_from(&Transaction): [res, rec]
TxRecord_try_from(tx) ==
    IF ~tx.amount.some
    THEN [res |-> ErrInvalidAmount,
          rec |-> [tx_type |-> tx.tx_type, account_id |-> tx.account_id, amount |-> 0]]
    ELSE [res |-> Ok,
          rec |-> [tx_type |-> tx.tx_type, account_id |-> tx.account_id,
                   amount |-> tx.amount.val]]

\* ------------------------------------------------------ PaymentsEngine
EmptyMap == [k \in {} |-> 0]



\* accounts.entry(id).or_insert(Account::new(id))
entry_or_insert(accts, id) ==
    IF id \in DOMAIN accts THEN accts
    ELSE [k \in (DOMAIN accts) \cup {id} |-> IF k = id THEN Account_new(id) ELSE accts[k]]

\* HashMap::insert that keeps the entry already stored under the key (the
\* behaviour of entry().or_insert).
insert_keeps_existing(map, key, value) ==
    [k \in (DOMAIN map) \cup {key} |->
        IF k \in DOMAIN map THEN map[k] ELSE value]

\* HashMap::insert: add or overwrite
insert(map, key, value) ==
    [k \in (DOMAIN map) \cup {key} |-> IF k = key THEN value ELSE map[k]]

\* Each process_* returns [accounts, transactions, res]: the engine after the
\* call and the call's result.

\* process_deposit that stores the record before the deposit is applied: a
\* failed deposit leaves its record behind.
process_deposit_stores_first(accts, txs, tx) ==
    LET accts1 == entry_or_insert(accts, tx.account_id)
        tx_info == TxRecord_try_from(tx)
        r == Account_deposit(accts1[tx.account_id], tx_info.rec.amount)
    IN IF tx_info.res # Ok
       THEN [accounts |-> accts1, transactions |-> txs, res |-> tx_info.res]
       ELSE IF r.res # Ok
       THEN [accounts |-> accts1,
             transactions |-> insert(txs, tx.tx_id, tx_info.rec),
             res |-> r.res]
       ELSE [accounts |-> [accts1 EXCEPT ![tx.account_id] = r.acct],
             transactions |-> insert(txs, tx.tx_id, tx_info.rec),
             res |-> Ok]

process_deposit(accts, txs, tx) ==
    LET accts1 == entry_or_insert(accts, tx.account_id)
        tx_info == TxRecord_try_from(tx)
        r == Account_deposit(accts1[tx.account_id], tx_info.rec.amount)
    IN IF tx_info.res # Ok
       THEN [accounts |-> accts1, transactions |-> txs, res |-> tx_info.res]
       ELSE IF r.res # Ok
       THEN [accounts |-> accts1, transactions |-> txs, res |-> r.res]
       ELSE [accounts |-> [accts1 EXCEPT ![tx.account_id] = r.acct],
             transactions |-> insert(txs, tx.tx_id, tx_info.rec),
             res |-> Ok]

process_withdrawal(accts, txs, tx) ==
    LET accts1 == entry_or_insert(accts, tx.account_id)
        tx_info == TxRecord_try_from(tx)
        r == Account_withdrawal(accts1[tx.account_id], tx_info.rec.amount)
    IN IF tx_info.res # Ok
       THEN [accounts |-> accts1, transactions |-> txs, res |-> tx_info.res]
       ELSE IF r.res # Ok
       THEN [accounts |-> accts1, transactions |-> txs, res |-> r.res]
       ELSE [accounts |-> [accts1 EXCEPT ![tx.account_id] = r.acct],
             transactions |-> insert(txs, tx.tx_id, tx_info.rec),
             res |-> Ok]

\* process_dispute that looks the record up before the account is fetched: an
\* unknown tx_id returns without creating the account.
process_dispute_lookup_first(accts, txs, tx) ==
    LET accts1 == entry_or_insert(accts, tx.account_id)
        account == accts1[tx.account_id]
    IN IF tx.tx_id \notin DOMAIN txs
       THEN [accounts |-> accts, transactions |-> txs, res |-> Ok]
       ELSE LET tx_info == txs[tx.tx_id]
                r == Account_dispute(account, tx_info.amount)
            IN IF validate_tx_account_id(account, tx_info.account_id) # Ok
               THEN [accounts |-> accts1, transactions |-> txs,
                     res |-> validate_tx_account_id(account, tx_info.account_id)]
               ELSE [accounts |-> [accts1 EXCEPT ![tx.account_id] = r.acct],
                     transactions |-> txs, res |-> r.res]

process_dispute(accts, txs, tx) ==
    LET accts1 == entry_or_insert(accts, tx.account_id)
        account == accts1[tx.account_id]
    IN IF tx.tx_id \notin DOMAIN txs
       THEN [accounts |-> accts1, transactions |-> txs, res |-> Ok]
       ELSE LET tx_info == txs[tx.tx_id]
                r == Account_dispute(account, tx_info.amount)
            IN IF validate_tx_account_id(account, tx_info.account_id) # Ok
               THEN [accounts |-> accts1, transactions |-> txs,
                     res |-> validate_tx_account_id(account, tx_info.account_id)]
               ELSE [accounts |-> [accts1 EXCEPT ![tx.account_id] = r.acct],
                     transactions |-> txs, res |-> r.res]


\* process_resolve that passes a missing record's tx on to the account with
\* a zero amount instead of ignoring it: a locked account answers Locked.
process_resolve_unknown_applied(accts, txs, tx) ==
    LET accts1 == entry_or_insert(accts, tx.account_id)
        account == accts1[tx.account_id]
    IN IF tx.tx_id \notin DOMAIN txs
       THEN [accounts |-> [accts1 EXCEPT ![tx.account_id] = Account_resolve(account, 0).acct],
             transactions |-> txs, res |-> Account_resolve(account, 0).res]
       ELSE LET tx_info == txs[tx.tx_id]
                r == Account_resolve(account, tx_info.amount)
            IN IF validate_tx_account_id(account, tx_info.account_id) # Ok
               THEN [accounts |-> accts1, transactions |-> txs,
                     res |-> validate_tx_account_id(account, tx_info.account_id)]
               ELSE [accounts |-> [accts1 EXCEPT ![tx.account_id] = r.acct],
                     transactions |-> txs, res |-> r.res]

process_resolve(accts, txs, tx) ==
    LET accts1 == entry_or_insert(accts, tx.account_id)
        account == accts1[tx.account_id]
    IN IF tx.tx_id \notin DOMAIN txs
       THEN [accounts |-> accts1, transactions |-> txs, res |-> Ok]
       ELSE LET tx_info == txs[tx.tx_id]
                r == Account_resolve(account, tx_info.amount)
            IN IF validate_tx_account_id(account, tx_info.account_id) # Ok
               THEN [accounts |-> accts1, transactions |-> txs,
                     res |-> validate_tx_account_id(account, tx_info.account_id)]
               ELSE [accounts |-> [accts1 EXCEPT ![tx.account_id] = r.acct],
                     transactions |-> txs, res |-> r.res]

\* process_chargeback that charges the account the record belongs to, not
\* the account the transaction names.
process_chargeback_on_owner(accts, txs, tx) ==
    LET accts1 == entry_or_insert(accts, tx.account_id)
    IN IF tx.tx_id \notin DOMAIN txs
       THEN [accounts |-> accts1, transactions |-> txs, res |-> Ok]
       ELSE LET tx_info == txs[tx.tx_id]
                r == Account_chargeback(accts1[tx_info.account_id], tx_info.amount)
            IN [accounts |-> [accts1 EXCEPT ![tx_info.account_id] = r.acct],
                transactions |-> txs, res |-> r.res]

process_chargeback(accts, txs, tx) ==
    LET accts1 == entry_or_insert(accts, tx.account_id)
        account == accts1[tx.account_id]
    IN IF tx.tx_id \notin DOMAIN txs
       THEN [accounts |-> accts1, transactions |-> txs, res |-> Ok]
       ELSE LET tx_info == txs[tx.tx_id]
                r == Account_chargeback(account, tx_info.amount)
            IN IF validate_tx_account_id(account, tx_info.account_id) # Ok
               THEN [accounts |-> accts1, transactions |-> txs,
                     res |-> validate_tx_account_id(account, tx_info.account_id)]
               ELSE [accounts |-> [accts1 EXCEPT ![tx.account_id] = r.acct],
                     transactions |-> txs, res |-> r.res]

process_tx(accts, txs, tx) ==
    CASE tx.tx_type = Deposit -> process_deposit(accts, txs, tx)
      [] tx.tx_type = Withdrawal -> process_withdrawal(accts, txs, tx)
      [] tx.tx_type = Dispute -> process_dispute(accts, txs, tx)
      [] tx.tx_type = Resolve -> process_resolve(accts, txs, tx)
      [] tx.tx_type = Chargeback -> process_chargeback(accts, txs, tx)

\* --------------------------------------------------------------- state
VARIABLES
    accounts,      \* PaymentsEngine.accounts: account id -> Account
    transactions,  \* PaymentsEngine.transactions: tx id -> TxRecord
    pc,            \* main: "read" in the row loop, "done" after the output
    rows,          \* main: rows read so far
    last           \* the latest process_tx call: the row it came from (0: no
                   \* call yet), its argument and its result

vars == <<accounts, transactions, pc, rows, last>>

\* The amounts a parsed row can carry: chargeable rows with or without an
\* amount, referencing rows without one.
RowAmounts(type) ==
    IF type \in {Deposit, Withdrawal}
    THEN {SomeAmount(a) : a \in Amounts} \cup {NoneAmount}
    ELSE {NoneAmount}

Init ==
    /\ accounts = EmptyMap
    /\ transactions = EmptyMap
    /\ pc = "read"
    /\ rows = 0
    /\ last = [row |-> 0, tx |-> Transaction(Deposit, 1, 1, NoneAmount), res |-> Ok]

\* engine.process_tx(&tx) on the engine's own state; the call is recorded.
Call(tx) ==
    LET r == process_tx(accounts, transactions, tx)
    IN /\ accounts' = r.accounts
       /\ transactions' = r.transactions
       /\ last' = [row |-> rows + 1, tx |-> tx, res |-> r.res]

\* The row loop with `?` on process_tx: a deposit row that fails ends main
\* before the output.
DepositRow_stops_on_error ==
    /\ pc = "read"
    /\ rows < MaxInput
    /\ \E account_id \in AccountIds, tx_id \in TxIds, amount \in RowAmounts(Deposit) :
          Call(Transaction(Deposit, account_id, tx_id, amount))
    /\ rows' = rows + 1
    /\ pc' = IF last'.res = Ok THEN "read" ELSE "failed"

\* One pass of the row loop on a row that parsed, by the row's type: the row
\* goes to process_tx; an error is logged and the loop continues.
DepositRow ==
    /\ pc = "read"
    /\ rows < MaxInput
    /\ \E account_id \in AccountIds, tx_id \in TxIds, amount \in RowAmounts(Deposit) :
          Call(Transaction(Deposit, account_id, tx_id, amount))
    /\ rows' = rows + 1
    /\ pc' = "read"

WithdrawalRow ==
    /\ pc = "read"
    /\ rows < MaxInput
    /\ \E account_id \in AccountIds, tx_id \in TxIds, amount \in RowAmounts(Withdrawal) :
          Call(Transaction(Withdrawal, account_id, tx_id, amount))
    /\ rows' = rows + 1
    /\ pc' = "read"

DisputeRow ==
    /\ pc = "read"
    /\ rows < MaxInput
    /\ \E account_id \in AccountIds, tx_id \in TxIds, amount \in RowAmounts(Dispute) :
          Call(Transaction(Dispute, account_id, tx_id, amount))
    /\ rows' = rows + 1
    /\ pc' = "read"

ResolveRow ==
    /\ pc = "read"
    /\ rows < MaxInput
    /\ \E account_id \in AccountIds, tx_id \in TxIds, amount \in RowAmounts(Resolve) :
          Call(Transaction(Resolve, account_id, tx_id, amount))
    /\ rows' = rows + 1
    /\ pc' = "read"

ChargebackRow ==
    /\ pc = "read"
    /\ rows < MaxInput
    /\ \E account_id \in AccountIds, tx_id \in TxIds, amount \in RowAmounts(Chargeback) :
          Call(Transaction(Chargeback, account_id, tx_id, amount))
    /\ rows' = rows + 1
    /\ pc' = "read"

\* A row that does not parse is skipped before it reaches the engine.
SkipInvalidRow ==
    /\ pc = "read"
    /\ rows < MaxInput
    /\ rows' = rows + 1
    /\ UNCHANGED <<accounts, transactions, pc, last>>

\* End of input: the accounts are written out and main returns.
WriteOutput ==
    /\ pc = "read"
    /\ pc' = "done"
    /\ UNCHANGED <<accounts, transactions, rows, last>>

Next ==
    \/ DepositRow
    \/ WithdrawalRow
    \/ DisputeRow
    \/ ResolveRow
    \/ ChargebackRow
    \/ SkipInvalidRow
    \/ WriteOutput

Spec == Init /\ [][Next]_vars

\* Every balance is a value a Decimal holds, and the loop is where it can be.
TypeOK ==
    /\ pc \in {"read", "done"}
    /\ rows \in 0..MaxInput
    /\ last.res \in Results
    /\ DOMAIN accounts \subseteq AccountIds
    /\ DOMAIN transactions \subseteq TxIds
    /\ \A id \in DOMAIN accounts :
          /\ accounts[id].id = id
          /\ IsDecimal(accounts[id].available)
          /\ IsDecimal(accounts[id].held)
          /\ IsDecimal(accounts[id].total)

\* -------------------------------------------------------------- claims
\* The step just taken was a process_tx call (recorded in last').
CallStep == rows' = rows + 1 /\ last'.row = rows'

\* The latest row went to process_tx (no skipped row since).
Called == last.row > 0

\* Every account the engine held before the step is the same after it.
AccountsKept == \A id \in DOMAIN accounts : id \in DOMAIN accounts' /\ accounts'[id] = accounts[id]

\* Every account the step created is a new, empty, unlocked one.
CreatedFresh == \A id \in (DOMAIN accounts') \ (DOMAIN accounts) : accounts'[id] = Account_new(id)

\* Amounts an Account operation can be handed: the row amounts and the
\* stored records' amounts.
OpAmounts == Amounts \cup {transactions[t].amount : t \in DOMAIN transactions}

\* C1: after any sequence of process_tx calls every account has
\* total = available + held, available >= 0 and held >= 0.
C1_BalanceInvariant ==
    \A id \in DOMAIN accounts :
        /\ accounts[id].total = accounts[id].available + accounts[id].held
        /\ accounts[id].available >= 0
        /\ accounts[id].held >= 0

\* C2: once an account is locked, no later step changes its available, held
\* or total.
C2_LockedBalancesFrozen ==
    [][\A id \in DOMAIN accounts :
          accounts[id].locked =>
              /\ id \in DOMAIN accounts'
              /\ accounts'[id].available = accounts[id].available
              /\ accounts'[id].held = accounts[id].held
              /\ accounts'[id].total = accounts[id].total]_vars

\* C2 witness: a locked account holding funds was addressed by a deposit or
\* withdrawal, which was refused.
C2_Witness ==
    /\ Called
    /\ last.tx.tx_type \in {Deposit, Withdrawal}
    /\ last.tx.amount.some /\ last.tx.amount.val > 0
    /\ last.res = ErrLocked
    /\ accounts[last.tx.account_id].locked
    /\ accounts[last.tx.account_id].total > 0

\* C3: a locked account stays locked, no account is removed, and an account
\* becomes locked only in a step that is a successful chargeback on it.
C3_LockMonotonic ==
    [][/\ \A id \in DOMAIN accounts :
             /\ id \in DOMAIN accounts'
             /\ accounts[id].locked => accounts'[id].locked
       /\ \A id \in DOMAIN accounts' :
             (accounts'[id].locked /\ ~(id \in DOMAIN accounts /\ accounts[id].locked)) =>
                 /\ CallStep
                 /\ last'.tx.tx_type = Chargeback
                 /\ last'.tx.account_id = id
                 /\ last'.res = Ok]_vars

\* C3 witness: an account locked by an earlier chargeback has since been
\* addressed again and is still locked.
C3_Witness ==
    /\ Called
    /\ last.tx.tx_type # Chargeback
    /\ last.tx.account_id \in DOMAIN accounts
    /\ accounts[last.tx.account_id].locked

\* The result r of an Account operation on acct: an error leaves acct as it was.
KeptOnError(r, acct) == r.res # Ok => r.acct = acct

\* C4: an Account operation that returns an error returns the account as it
\* was, and a process_tx call that returns an error leaves every account's
\* fields and the record map as they were.  The Account operations are
\* tried on the accounts at the end of the input, which may come after any
\* row: that is each engine state the loop reaches, once.
C4_FailureAtomic ==
    [][/\ (pc = "read" /\ pc' = "done") =>
             \A id \in DOMAIN accounts : \A amount \in OpAmounts :
             /\ KeptOnError(Account_deposit(accounts[id], amount), accounts[id])
             /\ KeptOnError(Account_withdrawal(accounts[id], amount), accounts[id])
             /\ KeptOnError(Account_dispute(accounts[id], amount), accounts[id])
             /\ KeptOnError(Account_resolve(accounts[id], amount), accounts[id])
             /\ KeptOnError(Account_chargeback(accounts[id], amount), accounts[id])
       /\ (CallStep /\ last'.res # Ok) =>
             /\ AccountsKept
             /\ CreatedFresh
             /\ transactions' = transactions]_vars

\* C4 witness: a deposit failed with an overflow on an account that holds
\* funds in both available and held.
C4_Witness ==
    /\ Called
    /\ last.tx.tx_type = Deposit
    /\ last.res = ErrOverflow
    /\ accounts[last.tx.account_id].available > 0
    /\ accounts[last.tx.account_id].held > 0

\* The call of the step stored a record: a deposit or withdrawal that succeeded.
StoredByStep == last'.tx.tx_type \in {Deposit, Withdrawal} /\ last'.res = Ok

\* The record map after the step is the map before it with the call's tx_id
\* mapped to the call's account and amount, every other entry as it was.
EntrySetByStep ==
    /\ DOMAIN transactions' = (DOMAIN transactions) \cup {last'.tx.tx_id}
    /\ transactions'[last'.tx.tx_id].account_id = last'.tx.account_id
    /\ transactions'[last'.tx.tx_id].amount = last'.tx.amount.val
    /\ transactions'[last'.tx.tx_id].tx_type = last'.tx.tx_type
    /\ \A k \in DOMAIN transactions : k # last'.tx.tx_id => transactions'[k] = transactions[k]

\* C5 as stated: a call changes the record map if and only if it is a deposit
\* or withdrawal that succeeds, and then the map gains exactly the call's entry.
C5_MapChangesIffStored ==
    [][CallStep =>
          /\ (transactions' # transactions) <=> StoredByStep
          /\ StoredByStep => EntrySetByStep]_vars

\* C5 amended: the record map is left as it was unless the call is a deposit
\* or withdrawal that succeeds; then the call's entry is set (added, or
\* written over the entry of the same tx_id), every other entry kept.  No
\* other step touches the map.
C5_RecordSetIffStored ==
    [][/\ CallStep => IF StoredByStep THEN EntrySetByStep ELSE transactions' = transactions
       /\ ~CallStep => transactions' = transactions]_vars

\* C5 witness: a successful withdrawal has been stored beside another record.
C5_Witness ==
    /\ Called
    /\ last.tx.tx_type = Withdrawal
    /\ last.res = Ok
    /\ last.tx.amount.val > 0
    /\ DOMAIN transactions = TxIds
    /\ transactions[last.tx.tx_id].tx_type = Withdrawal
    /\ transactions[last.tx.tx_id].amount = last.tx.amount.val

\* The call of the step is a dispute, resolve or chargeback.
ReferencingStep == CallStep /\ last'.tx.tx_type \in {Dispute, Resolve, Chargeback}

\* C6: a dispute, resolve or chargeback whose tx_id has no stored record
\* returns success and changes no field of any account, whatever the state
\* of the account it addresses.
C6_UnknownReferenceIgnored ==
    [][(ReferencingStep /\ last'.tx.tx_id \notin DOMAIN transactions) =>
          /\ last'.res = Ok
          /\ AccountsKept
          /\ CreatedFresh
          /\ transactions' = transactions]_vars

\* C6 witness: a resolve with no stored record was answered with success on
\* a locked account that still holds funds.
C6_Witness ==
    /\ Called
    /\ last.tx.tx_type = Resolve
    /\ last.tx.tx_id \notin DOMAIN transactions
    /\ last.res = Ok
    /\ accounts[last.tx.account_id].locked
    /\ accounts[last.tx.account_id].total > 0

\* C7: a dispute, resolve or chargeback addressed to an account other than
\* the one its stored record belongs to fails with the owner-mismatch error
\* and changes no field of any account.
C7_OwnerMismatchRejected ==
    [][(/\ ReferencingStep
        /\ last'.tx.tx_id \in DOMAIN transactions
        /\ transactions[last'.tx.tx_id].account_id # last'.tx.account_id) =>
          /\ last'.res = ErrOwnerMismatch
          /\ AccountsKept
          /\ CreatedFresh
          /\ transactions' = transactions]_vars

\* C7 witness: a dispute citing another account's record was refused although
\* the addressed account had the funds to cover the record's amount.
C7_Witness ==
    /\ Called
    /\ last.tx.tx_type = Dispute
    /\ last.res = ErrOwnerMismatch
    /\ last.tx.tx_id \in DOMAIN transactions
    /\ transactions[last.tx.tx_id].account_id # last.tx.account_id
    /\ transactions[last.tx.tx_id].amount > 0
    /\ accounts[last.tx.account_id].available >= transactions[last.tx.tx_id].amount
    /\ ~accounts[last.tx.account_id].locked

\* C8: a successful dispute of a stored record of amount a moves a from
\* available to held with total unchanged, and a resolve of the same tx_id
\* right after it succeeds and restores available, held and total to their
\* values before the dispute, the account unlocked.
C8_DisputeResolveRoundTrip ==
    [][(/\ CallStep
        /\ last'.tx.tx_type = Dispute
        /\ last'.tx.tx_id \in DOMAIN transactions
        /\ last'.res = Ok) =>
          LET id == last'.tx.account_id
              a == transactions[last'.tx.tx_id].amount
              r == process_tx(accounts', transactions',
                              Transaction(Resolve, id, last'.tx.tx_id, NoneAmount))
          IN /\ accounts'[id].available = accounts[id].available - a
             /\ accounts'[id].held = accounts[id].held + a
             /\ accounts'[id].total = accounts[id].total
             /\ r.res = Ok
             /\ r.accounts[id].available = accounts[id].available
             /\ r.accounts[id].held = accounts[id].held
             /\ r.accounts[id].total = accounts[id].total
             /\ ~r.accounts[id].locked]_vars

\* C9: a successful chargeback that follows the successful dispute of the
\* same stored record of amount a takes a off held and off total, leaves
\* available as it was and locks the account.
C9_DisputeChargeback ==
    [][(/\ CallStep
        /\ last'.tx.tx_type = Chargeback
        /\ last'.tx.tx_id \in DOMAIN transactions
        /\ last'.res = Ok
        /\ last.row = rows /\ last.row > 0
        /\ last.tx.tx_type = Dispute
        /\ last.tx.tx_id = last'.tx.tx_id
        /\ last.tx.account_id = last'.tx.account_id
        /\ last.res = Ok) =>
          LET id == last'.tx.account_id
              a == transactions[last'.tx.tx_id].amount
          IN /\ accounts'[id].held = accounts[id].held - a
             /\ accounts'[id].total = accounts[id].total - a
             /\ accounts'[id].available = accounts[id].available
             /\ accounts'[id].locked]_vars

\* Non-negative amounts a withdrawal can be asked for: the row amounts, the
\* stored amounts and the account's own balances.
WithdrawalAmounts(acct) ==
    {a \in OpAmounts \cup {acct.available, acct.total, acct.held} : a >= 0}

\* C10: on an unlocked account a withdrawal of a non-negative amount
\* succeeds if and only if amount <= available; one of exactly available
\* leaves available = 0; one of more than available fails with the
\* insufficient-funds error and leaves the account unchanged.
C10_WithdrawalBoundary ==
    \A id \in DOMAIN accounts :
        ~accounts[id].locked =>
            \A amount \in WithdrawalAmounts(accounts[id]) :
                LET r == Account_withdrawal(accounts[id], amount)
                IN /\ (r.res = Ok) <=> (amount <= accounts[id].available)
                   /\ amount = accounts[id].available =>
                          r.res = Ok /\ r.acct.available = 0
                   /\ amount > accounts[id].available =>
                          r.res = ErrInsufficient /\ r.acct = accounts[id]

\* The account process_tx works on: the stored one, or the new one that
\* entry().or_insert creates for an unseen id.
Before(id) == IF id \in DOMAIN accounts THEN accounts[id] ELSE Account_new(id)

\* C11: on an unlocked account a successful deposit of a non-negative amount
\* followed at once by a withdrawal of the same amount: the withdrawal
\* succeeds and available and total are back at their values before the
\* deposit, held and locked unchanged throughout.
C11_DepositWithdrawalRoundTrip ==
    [][(/\ CallStep
        /\ last'.tx.tx_type = Deposit
        /\ last'.res = Ok
        /\ last'.tx.amount.val >= 0
        /\ ~Before(last'.tx.account_id).locked) =>
          LET id == last'.tx.account_id
              r == process_tx(accounts', transactions',
                              Transaction(Withdrawal, id, last'.tx.tx_id, last'.tx.amount))
          IN /\ accounts'[id].held = Before(id).held
             /\ accounts'[id].locked = Before(id).locked
             /\ r.res = Ok
             /\ r.accounts[id].available = Before(id).available
             /\ r.accounts[id].total = Before(id).total
             /\ r.accounts[id].held = Before(id).held
             /\ r.accounts[id].locked = Before(id).locked]_vars

\* Amounts an Account operation is tried with on a locked account: negative,
\* small, stored, and the account's balances exceeded.
LockedAmounts(acct) ==
    OpAmounts \cup {acct.available + One, acct.held + One, acct.total + One}

\* The result r of an Account operation on a locked acct: the Locked failure,
\* the account as it was.
RefusedLocked(r, acct) == r.res = ErrLocked /\ r.acct = acct

\* C12: on a locked account every Account operation returns the Locked
\* failure for every amount (negative ones and ones above the balances
\* included); a resolve or chargeback replayed through process_tx for the
\* tx_id of the chargeback that locked the account, right after it or in any
\* later step, returns an error and changes nothing.  The Account operations
\* are tried on the accounts of each engine state the loop reaches, once.
C12_LockFirstGate ==
    [][/\ (pc = "read" /\ pc' = "done") =>
             \A id \in DOMAIN accounts : accounts[id].locked =>
                 \A amount \in LockedAmounts(accounts[id]) :
                 /\ RefusedLocked(Account_deposit(accounts[id], amount), accounts[id])
                 /\ RefusedLocked(Account_withdrawal(accounts[id], amount), accounts[id])
                 /\ RefusedLocked(Account_dispute(accounts[id], amount), accounts[id])
                 /\ RefusedLocked(Account_resolve(accounts[id], amount), accounts[id])
                 /\ RefusedLocked(Account_chargeback(accounts[id], amount), accounts[id])
       /\ (CallStep /\ last'.tx.tx_type = Chargeback /\ last'.res = Ok
                    /\ last'.tx.tx_id \in DOMAIN transactions) =>
             \A type \in {Resolve, Chargeback} :
                 LET r == process_tx(accounts', transactions',
                                     Transaction(type, last'.tx.account_id,
                                                 last'.tx.tx_id, NoneAmount))
                 IN /\ r.res = ErrLocked
                    /\ r.accounts = accounts'
                    /\ r.transactions = transactions'
       /\ (CallStep /\ last'.tx.tx_type \in {Resolve, Chargeback}
                    /\ last'.tx.tx_id \in DOMAIN transactions
                    /\ Before(last'.tx.account_id).locked) =>
             /\ last'.res \in {ErrLocked, ErrOwnerMismatch}
             /\ accounts' = accounts
             /\ transactions' = transactions]_vars

\* C12 witness: a chargeback was replayed on the account it had locked and was
\* refused as locked, the account still holding funds.
C12_Witness ==
    /\ Called
    /\ last.tx.tx_type = Chargeback
    /\ last.res = ErrLocked
    /\ last.tx.tx_id \in DOMAIN transactions
    /\ transactions[last.tx.tx_id].account_id = last.tx.account_id
    /\ accounts[last.tx.account_id].locked
    /\ accounts[last.tx.account_id].total > 0

\* C13: a deposit of a non-negative amount to an unlocked account, with
\* available + amount or total + amount above Decimal::MAX, returns the
\* overflow error and leaves the account as it was; no balance is ever the
\* saturated or wrapped result of such a deposit.
C13_CheckedArithmetic ==
    [][(/\ CallStep
        /\ last'.tx.tx_type = Deposit
        /\ last'.tx.amount.some
        /\ last'.tx.amount.val >= 0
        /\ ~Before(last'.tx.account_id).locked
        /\ \/ Before(last'.tx.account_id).available + last'.tx.amount.val > DecimalMAX
           \/ Before(last'.tx.account_id).total + last'.tx.amount.val > DecimalMAX) =>
          /\ last'.res = ErrOverflow
          /\ accounts'[last'.tx.account_id] = Before(last'.tx.account_id)]_vars

\* C14: after a process_tx call, whatever its type and result, the account
\* map holds the call's account id and every account it held before; the call
\* adds no other account; an account the call created is the new empty
\* unlocked one unless the call is a deposit that succeeded, and then it is
\* that deposit applied to the new one; no step removes an account.
C14_LazyCreation ==
    [][/\ DOMAIN accounts \subseteq DOMAIN accounts'
       /\ CallStep =>
             LET id == last'.tx.account_id
             IN /\ DOMAIN accounts' = (DOMAIN accounts) \cup {id}
                /\ id \notin DOMAIN accounts =>
                      IF last'.tx.tx_type = Deposit /\ last'.res = Ok
                      THEN accounts'[id] = Account_deposit(Account_new(id), last'.tx.amount.val).acct
                      ELSE /\ accounts'[id].id = id
                           /\ accounts'[id].available = 0
                           /\ accounts'[id].held = 0
                           /\ accounts'[id].total = 0
                           /\ ~accounts'[id].locked
       /\ ~CallStep => DOMAIN accounts' = DOMAIN accounts]_vars

\* C14 witness: the second row, a chargeback citing the record of the first
\* row's account, failed on an account id not seen before, which is now in
\* the map, empty and unlocked.
C14_Witness ==
    /\ Called
    /\ rows = 2
    /\ last.row = rows
    /\ last.tx.tx_type = Chargeback
    /\ last.res = ErrOwnerMismatch
    /\ transactions[last.tx.tx_id].account_id # last.tx.account_id
    /\ DOMAIN accounts = AccountIds
    /\ accounts[last.tx.account_id] = Account_new(last.tx.account_id)

\* The call of the step is a deposit or withdrawal.
ChargeableStep == CallStep /\ last'.tx.tx_type \in {Deposit, Withdrawal}

\* The call of the step is a dispute, resolve or chargeback citing a stored
\* record of its own account, which is unlocked.
OwnRecordStep ==
    /\ ReferencingStep
    /\ last'.tx.tx_id \in DOMAIN transactions
    /\ transactions[last'.tx.tx_id].account_id = last'.tx.account_id
    /\ ~Before(last'.tx.account_id).locked

\* C15: each cause of failure is reported under the variant the taxonomy
\* gives it.  AccountError: the account is locked; the funds do not cover a
\* withdrawal, dispute, resolve or chargeback.  TransactionError: a deposit or
\* withdrawal without an amount, or with a negative one; a dispute, resolve
\* or chargeback citing another account's record; an arithmetic overflow or
\* underflow.  Every result is a success or one of the two variants.
C15_ErrorTaxonomy ==
    [][CallStep =>
          LET tx == last'.tx
              acct == Before(last'.tx.account_id)
              res == last'.res
          IN /\ res.kind \in {"Ok", "AccountError", "TransactionError"}
             /\ (ChargeableStep /\ ~tx.amount.some) =>
                    res = ErrInvalidAmount /\ res.kind = "TransactionError"
             /\ (ChargeableStep /\ tx.amount.some /\ acct.locked) =>
                    res = ErrLocked /\ res.kind = "AccountError"
             /\ (ChargeableStep /\ tx.amount.some /\ ~acct.locked /\ tx.amount.val < 0) =>
                    res = ErrNegative /\ res.kind = "TransactionError"
             /\ (ChargeableStep /\ tx.tx_type = Withdrawal /\ tx.amount.some
                   /\ ~acct.locked /\ tx.amount.val >= 0
                   /\ acct.available < tx.amount.val) =>
                    res = ErrInsufficient /\ res.kind = "AccountError"
             /\ (ChargeableStep /\ tx.tx_type = Deposit /\ tx.amount.some
                   /\ ~acct.locked /\ tx.amount.val >= 0 /\ res # Ok) =>
                    res = ErrOverflow /\ res.kind = "TransactionError"
             /\ (ReferencingStep /\ tx.tx_id \in DOMAIN transactions
                   /\ transactions[tx.tx_id].account_id # tx.account_id) =>
                    res = ErrOwnerMismatch /\ res.kind = "TransactionError"
             /\ (ReferencingStep /\ tx.tx_id \in DOMAIN transactions
                   /\ transactions[tx.tx_id].account_id = tx.account_id
                   /\ acct.locked) =>
                    res = ErrLocked /\ res.kind = "AccountError"
             /\ (OwnRecordStep /\ tx.tx_type = Dispute
                   /\ acct.available < transactions[tx.tx_id].amount) =>
                    res = ErrInsufficient /\ res.kind = "AccountError"
             /\ (OwnRecordStep /\ tx.tx_type \in {Resolve, Chargeback}
                   /\ acct.held < transactions[tx.tx_id].amount) =>
                    res = ErrInsufficient /\ res.kind = "AccountError"
             /\ res \in {ErrOverflow, ErrUnderflow} => res.kind = "TransactionError"]_vars

\* C15 witness: a withdrawal of more than the available funds of an unlocked
\* account holding funds was reported as an AccountError.
C15_Witness ==
    /\ Called
    /\ last.tx.tx_type = Withdrawal
    /\ last.tx.amount.some
    /\ last.tx.amount.val > accounts[last.tx.account_id].available
    /\ accounts[last.tx.account_id].available > 0
    /\ ~accounts[last.tx.account_id].locked
    /\ last.res.kind = "AccountError"
    /\ last.res = ErrInsufficient

\* main on a finite input: the loop is synchronous and the input ends, so
\* the end of input, which may come after any row, is not put off for ever.
FairSpec == Spec /\ WF_vars(WriteOutput)

\* C16: the run is a finite fold.  Each step of the loop takes exactly the
\* next row; a row handed to process_tx is handed over once, as call number
\* rows + 1, and the engine after it is process_tx applied to the engine the
\* rows before it left, whatever their results were; a call that fails
\* leaves the loop reading; the output step changes nothing; and the run
\* reaches the output step.
C16_RunLoop ==
    /\ [][\/ /\ pc = "read" /\ pc' = "read"
             /\ rows' = rows + 1
             /\ \/ /\ last'.row = rows'
                   /\ last'.row > last.row
                   /\ last'.tx.tx_type \in TransactionType
                   /\ accounts' = process_tx(accounts, transactions, last'.tx).accounts
                   /\ transactions' = process_tx(accounts, transactions, last'.tx).transactions
                   /\ last'.res = process_tx(accounts, transactions, last'.tx).res
                \/ UNCHANGED <<accounts, transactions, last>>
          \/ /\ pc = "read" /\ pc' = "done"
             /\ UNCHANGED <<accounts, transactions, rows, last>>]_vars
    /\ [](rows <= MaxInput)
    /\ <>(pc = "done")

\* C16 witness: the last row of a full input failed in process_tx and the
\* run has reached the output step all the same.
C16_Witness ==
    /\ pc = "done"
    /\ rows = MaxInput
    /\ last.row = rows
    /\ last.res # Ok

\* The Account operation a referencing transaction type stands for.
Account_op(type, acct, amount) ==
    CASE type = Dispute -> Account_dispute(acct, amount)
      [] type = Resolve -> Account_resolve(acct, amount)
      [] type = Chargeback -> Account_chargeback(acct, amount)

\* A dispute, resolve or chargeback citing a stored tx_id goes by the record
\* stored under it: addressed to any account but the record's it fails with
\* the owner mismatch and changes no account, addressed to the record's
\* account it is the Account operation with the record's amount.
RecordsInForce ==
    \A t \in DOMAIN transactions :
    \A type \in {Dispute, Resolve, Chargeback} : \A id \in AccountIds :
        LET r == process_tx(accounts, transactions, Transaction(type, id, t, NoneAmount))
        IN IF id # transactions[t].account_id
           THEN /\ r.res = ErrOwnerMismatch
                /\ \A k \in DOMAIN accounts : r.accounts[k] = accounts[k]
           ELSE /\ r.res = Account_op(type, accounts[id], transactions[t].amount).res
                /\ r.accounts[id] = Account_op(type, accounts[id], transactions[t].amount).acct

\* C17: a deposit or withdrawal whose tx_id is already a key of the record
\* map.  If it succeeds, the record under tx_id is the new one (the call's
\* account and amount); if it fails, the earlier record stays.  In every
\* state, so after either, disputes, resolves and chargebacks citing a tx_id
\* go by the record then stored: the earlier owner of an overwritten record
\* gets the owner mismatch and the earlier amount is not used.
C17_DuplicateOverwrites ==
    /\ [][(ChargeableStep /\ last'.tx.tx_id \in DOMAIN transactions) =>
              IF last'.res = Ok
              THEN /\ transactions'[last'.tx.tx_id].account_id = last'.tx.account_id
                   /\ transactions'[last'.tx.tx_id].amount = last'.tx.amount.val
              ELSE transactions'[last'.tx.tx_id] = transactions[last'.tx.tx_id]]_vars
    /\ []RecordsInForce

\* C17 witness: two rows, each a successful deposit, the first to one account
\* and the second to the other under the same tx_id: the one stored record
\* is the second's, and the first account still holds its deposit.
C17_Witness ==
    /\ Called
    /\ rows = 2
    /\ last.row = rows
    /\ last.tx.tx_type = Deposit
    /\ last.res = Ok
    /\ DOMAIN accounts = AccountIds
    /\ \A id \in AccountIds : accounts[id].total > 0
    /\ DOMAIN transactions = {last.tx.tx_id}
    /\ transactions[last.tx.tx_id].account_id = last.tx.account_id

\* C18: for a stored record of amount a whose owner A is unlocked, whatever
\* was disputed, resolved or replayed before: a dispute on A citing it
\* succeeds exactly when available >= a, a resolve exactly when held >= a,
\* and a chargeback exactly when held >= a.
C18_ReplayGuards ==
    \A t \in DOMAIN transactions :
        LET id == transactions[t].account_id
            a == transactions[t].amount
            res(type) == process_tx(accounts, transactions,
                                    Transaction(type, id, t, NoneAmount)).res
        IN ~accounts[id].locked =>
              /\ (res(Dispute) = Ok) <=> (accounts[id].available >= a)
              /\ (res(Resolve) = Ok) <=> (accounts[id].held >= a)
              /\ (res(Chargeback) = Ok) <=> (accounts[id].held >= a)

\* C19: a process_tx call leaves available, held, total and locked of every
\* account other than the one its account_id names as they were, and creates
\* no account but that one, for every transaction type and result.
C19_AccountIsolation ==
    [][CallStep =>
          /\ \A id \in (DOMAIN accounts) \ {last'.tx.account_id} :
                /\ id \in DOMAIN accounts'
                /\ accounts'[id].available = accounts[id].available
                /\ accounts'[id].held = accounts[id].held
                /\ accounts'[id].total = accounts[id].total
                /\ accounts'[id].locked = accounts[id].locked
          /\ (DOMAIN accounts') \ (DOMAIN accounts) \subseteq {last'.tx.account_id}]_vars

\* C19 witness: a call changed its own account (a successful withdrawal, or a
\* chargeback that locked it) while another account holds available and
\* held funds and is unlocked.
C19_Witness ==
    /\ Called
    /\ last.tx.tx_type \in {Withdrawal, Chargeback}
    /\ last.res = Ok
    /\ last.tx.tx_id \in DOMAIN transactions
    /\ transactions[last.tx.tx_id].amount > 0
    /\ \E other \in (DOMAIN accounts) \ {last.tx.account_id} :
          /\ accounts[other].available > 0
          /\ accounts[other].held > 0
          /\ ~accounts[other].locked

\* The amount the call of the step works with: the row's for a deposit or
\* withdrawal, the stored record's for a dispute, resolve or chargeback.
StepAmount ==
    IF last'.tx.tx_type \in {Deposit, Withdrawal} THEN last'.tx.amount.val
    ELSE IF last'.tx.tx_id \in DOMAIN transactions THEN transactions[last'.tx.tx_id].amount
    ELSE 0

\* What a successful call of the type adds to total and to held, by the
\* sums of the claim.
TotalDelta(type, a) ==
    CASE type = Deposit -> a
      [] type \in {Withdrawal, Chargeback} -> 0 - a
      [] OTHER -> 0

HeldDelta(type, a) ==
    CASE type = Dispute -> a
      [] type \in {Resolve, Chargeback} -> 0 - a
      [] OTHER -> 0

\* C20: each account's total is the sum of its successful deposits less its
\* successful withdrawals and chargebacks, and its held the sum of its
\* successful disputes less its successful resolves and chargebacks.  Both
\* sums start at zero with the account, so the equalities are kept exactly
\* when every successful call moves total and held of its account by its
\* amount, as the sums move, and a failed call leaves them.
C20_Conservation ==
    [][CallStep =>
          LET id == last'.tx.account_id
              a == IF last'.res = Ok THEN StepAmount ELSE 0
          IN /\ accounts'[id].total = Before(id).total + TotalDelta(last'.tx.tx_type, a)
             /\ accounts'[id].held = Before(id).held + HeldDelta(last'.tx.tx_type, a)]_vars

\* The record map with the record under t stored as the other chargeable type.
OtherType(type) == IF type = Deposit THEN Withdrawal ELSE Deposit

WithTypeSwapped(t) ==
    [transactions EXCEPT ![t].tx_type = OtherType(transactions[t].tx_type)]

\* A dispute, resolve or chargeback citing a stored tx_id gives the same
\* result and the same accounts whether the record is a deposit's or a
\* withdrawal's of the same account and amount.
RecordTypeIgnored ==
    \A t \in DOMAIN transactions :
    \A type \in {Dispute, Resolve, Chargeback} : \A id \in AccountIds :
        LET tx == Transaction(type, id, t, NoneAmount)
        IN /\ process_tx(accounts, WithTypeSwapped(t), tx).res =
                  process_tx(accounts, transactions, tx).res
           /\ process_tx(accounts, WithTypeSwapped(t), tx).accounts =
                  process_tx(accounts, transactions, tx).accounts

\* C21: a dispute, resolve or chargeback citing a stored withdrawal is
\* handled as one citing a stored deposit of the same amount and account;
\* a successful dispute of a stored withdrawal of amount a moves a from
\* available to held, and a chargeback right after it succeeds, takes a off
\* held and off total, leaves available and locks the account.
C21_RecordTypeIrrelevant ==
    /\ []RecordTypeIgnored
    /\ [][(/\ CallStep
           /\ last'.tx.tx_type = Dispute
           /\ last'.tx.tx_id \in DOMAIN transactions
           /\ transactions[last'.tx.tx_id].tx_type = Withdrawal
           /\ last'.res = Ok) =>
             LET id == last'.tx.account_id
                 a == transactions[last'.tx.tx_id].amount
                 r == process_tx(accounts', transactions',
                                 Transaction(Chargeback, id, last'.tx.tx_id, NoneAmount))
             IN /\ accounts'[id].available = accounts[id].available - a
                /\ accounts'[id].held = accounts[id].held + a
                /\ accounts'[id].total = accounts[id].total
                /\ r.res = Ok
                /\ r.accounts[id].held = accounts'[id].held - a
                /\ r.accounts[id].total = accounts'[id].total - a
                /\ r.accounts[id].available = accounts'[id].available
                /\ r.accounts[id].locked]_vars

====
